---- MODULE Spec2Model ----
(***************************************************************************)
(* Particle Dance: the session state machine of js/game.js (Game), the     *)
(* entities of js/particles.js and the pointer input of js/input.js.       *)
(*                                                                         *)
(* Numbers.  Positions are integer canvas units and every distance test    *)
(* compares squared distances.  Rates and the difficulty multipliers are   *)
(* kept in thousandths (1000 = 1.0), powerUpChance in millionths, wall     *)
(* clock time in milliseconds.  A particle's life is counted in decay      *)
(* steps (life / decay of the source).                                     *)
(*                                                                         *)
(* Physics.  In this module one Particle.update moves the particle to a    *)
(* position drawn from a small set of sample positions: the force          *)
(* integration of the source depends on the random spawn angle and on the  *)
(* paths the player draws, so the position after a step is an input here.  *)
(* Everything else of a step (the early return of an inactive particle,    *)
(* the life decrement, the deactivation at life <= 0) is the source's.     *)
(* The arithmetic a tick does on the velocity of one particle (time-slow   *)
(* scale, magnet block, forces, friction, position step) is modelled apart, *)
(* on the variable probe under PhysicsSpec, along one axis and in          *)
(* millionths of a canvas unit per tick.                                   *)
(* The trail of a particle is followed under TrailSpec, the difficulty     *)
(* multipliers over many levels and sessions under DifficultySpec.         *)
(*                                                                         *)
(* Rendering.  Game.draw writes to the canvas only; it is taken to return  *)
(* normally and is not modelled.                                           *)
(***************************************************************************)
EXTENDS Integers, Sequences, FiniteSets, TLC

VARIABLES
    game,       \* the fields of the Game object
    input,      \* the fields of the InputHandler
    timers,     \* the pending setTimeout callbacks of activatePowerUp
    frames,     \* the pending requestAnimationFrame callbacks of gameLoop
    highScore,  \* localStorage's particleDanceHighScore
    sessions,   \* how many times start() got past its guard
    draws,      \* the values the random draws and the physics take in this run
    log,        \* what the last handler did (observation only, read by no action)
    probe       \* position and velocity of one particle (stepped under PhysicsSpec only)

vars == <<game, input, timers, frames, highScore, sessions, draws, log, probe>>

(***************************************************************************)
(* Bounds of the model                                                     *)
(***************************************************************************)
\* maxParticles of an emitter is 100 + 10 * level in the source; the model
\* scales every pool to PoolCap particles so that a pool fills.
PoolCap == 1
\* power-ups lying on the field at once (the per-tick spawn draw is only
\* explored below this number)
MaxPowerUps == 1
\* paths the player has on the screen at once in the explored runs
MaxPathsDrawn == 1
\* the life of a long-lived particle, in decay steps
LongLife == 12
\* frame callbacks pending at once (a session is only started below this number)
MaxFrames == 2
\* sessions started in one run that explores restarts
MaxSessions == 2
\* the window (canvas.width x canvas.height after resizeCanvas)
CanvasWidth == 1000
CanvasHeight == 600
\* ticks the velocity of the probed particle is followed for
MaxProbeTicks == 3
\* steps the trail of the probed particle is followed for
MaxTrailSteps == 12
\* the level up to which the difficulty multipliers are followed
MaxLevels == 40

(***************************************************************************)
(* Program constants                                                       *)
(***************************************************************************)
obstacleCount == 3
collectionPointCount == 3
InitialPowerUpChance == 10000
MaxPowerUpChance == 50000
InitialMultiplier == 1000
ObstacleEmitterGap == 150
PointEmitterGap == 100
ClearanceGap == 50
MagnetRange == 200
BoundsMargin == 50
PowerUpRadius == 15
PowerUpBaseDuration == 5000
PowerUpLevelDuration == 500
LevelBonus == 100
maxPaths == 5
pathLifetime == 3000
\* attempts of a placement loop
MaxAttempts == 50
\* trail positions a particle keeps
maxTrailLength == 10
\* friction 0.98 in hundredths; the magnet force 0.2 and the path-follow force
\* 0.1 in millionths
FrictionPercent == 98
MagnetForce == 200000
PathFollowForce == 100000

PowerUpTypes == {"timeSlow", "magnet", "shield", "multiplier"}

(***************************************************************************)
(* Sample values of the random draws and of the physics                    *)
(***************************************************************************)
Pt(x, y) == [x |-> x, y |-> y]
\* positions: at the level-1 emitter; three draws tried for a collection
\* point (AtPoint, AtFarPoint and NearEmitter, the last closer than 100 to the
\* emitter); the draw tried for an obstacle; the draws tried for a power-up
\* (AtPowerUp, and NearEmitter, NearObstacle and AtPoint, too close to an
\* emitter, to an obstacle at AtObstacle and to a point at AtPoint); a
\* position outside the canvas by more than the margin
AtEmitter == Pt(680, 300)
AtPoint == Pt(100, 300)
AtFarPoint == Pt(300, 500)
NearEmitter == Pt(600, 300)
AtObstacle == Pt(900, 300)
AtPowerUp == Pt(300, 100)
NearObstacle == Pt(850, 300)
Outside == Pt(0 - 100, 300)
\* a draw tried for a collection point: 150 from the emitter
BelowEmitter == Pt(680, 450)
\* draws of (random(50, w - 50), random(50, h - 50)) tried for an obstacle
\* and for a power-up
ObstacleSamples == {AtObstacle}
PowerUpSamples == {AtPowerUp, NearEmitter, NearObstacle, AtPoint}
\* draws of random(20, 40) for an obstacle's radius
RadiusSamples == {30}
\* wall-clock time that passes in one step of the clock
TimeQuantum == 3500

\* A run takes its remaining draws from one of these families:
\*   points  draws tried for a collection point
\*   lives   draws of random(life.min, life.max), in decay steps
\*   pool    positions after the step ParticleEmitter.update gives a particle
\*   loop    positions after the step the particle loop of Game.update gives it
\*   types   draws of the power-up type
\*   strokes how many paths the player draws at once
\*   obstacles draws tried for an obstacle
\*   restarts  how many sessions are started after the first one
Family(points, lives, pool, loop, types, strokes) ==
    [points |-> points, lives |-> lives, pool |-> pool, loop |-> loop, types |-> types,
     strokes |-> strokes, obstacles |-> ObstacleSamples, restarts |-> 0]
DrawFamilies ==
    {Family({AtPoint}, {LongLife}, {AtEmitter}, {AtPoint, AtPowerUp}, {"multiplier"}, 0),
     Family({AtPoint}, {2}, {AtEmitter}, {AtEmitter, AtPoint}, {}, 0),
     Family({AtPoint}, {LongLife}, {AtEmitter}, {AtObstacle, AtPowerUp}, {"shield"}, 0),
     [Family({AtPoint}, {LongLife}, {AtEmitter}, {AtPoint, AtObstacle}, {}, MaxPathsDrawn)
         EXCEPT !.restarts = MaxSessions - 1],
     Family({NearEmitter}, {LongLife}, {AtEmitter, AtObstacle}, {AtEmitter}, {}, 0),
     Family({AtPoint, AtFarPoint}, {LongLife}, {AtEmitter}, {AtPoint, AtFarPoint}, {}, 0),
     [Family({AtPoint, NearObstacle}, {LongLife}, {AtEmitter}, {AtEmitter}, {}, 0)
         EXCEPT !.obstacles = {AtObstacle, NearEmitter}],
     [Family({AtPoint}, {4, LongLife}, {AtEmitter}, {AtPowerUp}, {"shield"}, 0)
         EXCEPT !.restarts = MaxSessions - 1],
     Family({AtPoint}, {LongLife}, {AtEmitter, Outside}, {AtPoint}, {}, 0),
     Family({BelowEmitter}, {LongLife}, {AtEmitter}, {BelowEmitter, AtPowerUp}, {"magnet"}, 0)}

(***************************************************************************)
(* Utilities (distance, min, sequences)                                    *)
(***************************************************************************)
Min(a, b) == IF a < b THEN a ELSE b

\* distance(x1, y1, x2, y2) squared
distanceSq(x1, y1, x2, y2) == (x2 - x1) * (x2 - x1) + (y2 - y1) * (y2 - y1)
\* distance(...) < d and distance(...) <= d, for d >= 0
distanceBelow(x1, y1, x2, y2, d) == distanceSq(x1, y1, x2, y2) < d * d
distanceWithin(x1, y1, x2, y2, d) == distanceSq(x1, y1, x2, y2) <= d * d

Range(s) == {s[i] : i \in 1..Len(s)}

RECURSIVE SelectIdx(_, _, _)
\* the elements of s whose index is in keep, in order (Array.splice of the rest)
SelectIdx(s, keep, i) ==
    IF i > Len(s) THEN <<>>
    ELSE (IF i \in keep THEN <<s[i]>> ELSE <<>>) \o SelectIdx(s, keep, i + 1)

\* Math.floor(a * n / d) of non-negative integers
MulDiv(a, n, d) == (a * n) \div d

(***************************************************************************)
(* Level generation: Game.createLevel                                      *)
(***************************************************************************)
\* Math.cos and Math.sin of (i / emitterCount) * 2 * PI, in thousandths
CosMilli(i, emitterCount) ==
    IF i = 0 THEN 1000
    ELSE IF emitterCount = 2 THEN 0 - 1000
    ELSE 0 - 500
SinMilli(i, emitterCount) ==
    IF i = 0 \/ emitterCount = 2 THEN 0
    ELSE IF i = 1 THEN 866
    ELSE 0 - 866

EmitterCount(lvl) == Min(1 + (lvl \div 3), 3)

\* new ParticleEmitter(x, y, {rate, speed, maxParticles, ...}) of createLevel
NewEmitter(i, emitterCount, lvl, spawnRate, particleSpeed) ==
    LET dist == (Min(CanvasWidth, CanvasHeight) * 3) \div 10
    IN  [x |-> (CanvasWidth \div 2) + ((CosMilli(i, emitterCount) * dist) \div 1000),
         y |-> (CanvasHeight \div 2) + ((SinMilli(i, emitterCount) * dist) \div 1000),
         rate |-> MulDiv(spawnRate, 10 + 2 * lvl, 10),
         rateFraction |-> 0,
         speed |-> MulDiv(particleSpeed, 10 + lvl, 10),
         particles |-> <<>>,
         maxParticles |-> PoolCap,
         active |-> TRUE]

NewEmitters(lvl, spawnRate, particleSpeed) ==
    [k \in 1..EmitterCount(lvl) |->
        NewEmitter(k - 1, EmitterCount(lvl), lvl, spawnRate, particleSpeed)]

\* the inner checks of the three placement loops
FarFromEmitters(pt, ems, gap) ==
    \A k \in 1..Len(ems) : ~distanceBelow(pt.x, pt.y, ems[k].x, ems[k].y, gap)
FarFromObstacles(pt, obs) ==
    \A k \in 1..Len(obs) :
        ~distanceBelow(pt.x, pt.y, obs[k].x, obs[k].y, obs[k].radius + ClearanceGap)
FarFromPoints(pt, cps) ==
    \A k \in 1..Len(cps) :
        cps[k].collected
        \/ ~distanceBelow(pt.x, pt.y, cps[k].x, cps[k].y, cps[k].radius + ClearanceGap)

ObstaclePositionValid(pt, ems) == FarFromEmitters(pt, ems, ObstacleEmitterGap)
PointPositionValid_Anywhere(pt, ems, obs) == TRUE
PointPositionValid(pt, ems, obs) ==
    FarFromEmitters(pt, ems, PointEmitterGap) /\ FarFromObstacles(pt, obs)
PowerUpPositionValid_Anywhere(pt, ems, obs, cps) == TRUE
PowerUpPositionValid(pt, ems, obs, cps) ==
    /\ FarFromEmitters(pt, ems, PointEmitterGap)
    /\ FarFromObstacles(pt, obs)
    /\ FarFromPoints(pt, cps)

\* What a placement loop (while (!validPosition && attempts < 50)) ends with:
\* the first valid draw, or no position when every attempt drew an invalid one.
Placed(pt) == [ok |-> TRUE, x |-> pt.x, y |-> pt.y]
NotPlaced == [ok |-> FALSE, x |-> 0, y |-> 0]
\* a loop that keeps the last position tried when every attempt failed (a
\* variant, to show C31_PlacementSkips reads the skip)
PlacementLoop_NeverSkips(valid, invalid, attempts) ==
    {Placed(pt) : pt \in valid \cup invalid}

RECURSIVE PlacementLoop(_, _, _)
\* while (!validPosition && attempts < 50) { draw; test; attempts++ }: what the
\* loop can leave, from the samples that pass the test and those that fail it
PlacementLoop(valid, invalid, attempts) ==
    IF attempts >= MaxAttempts THEN {NotPlaced}
    ELSE {Placed(pt) : pt \in valid}
         \cup (IF invalid = {} THEN {} ELSE PlacementLoop(valid, invalid, attempts + 1))

PlacementOutcomes(valid, invalid) == PlacementLoop(valid, invalid, 0)

NewObstacle(pos, radius) == [x |-> pos.x, y |-> pos.y, radius |-> radius]
NewCollectionPoint(pos, lvl) ==
    [x |-> pos.x, y |-> pos.y, radius |-> 15 + lvl,
     value |-> 10 * (1 + (lvl \div 2)), collected |-> FALSE]

RECURSIVE ObstacleLayouts(_, _)
\* the obstacle lists the first loop of createLevel can build in n rounds
ObstacleLayouts(n, ems) ==
    IF n = 0 THEN {<<>>}
    ELSE LET outcomes == PlacementOutcomes(
                 {pt \in draws.obstacles : ObstaclePositionValid(pt, ems)},
                 {pt \in draws.obstacles : ~ObstaclePositionValid(pt, ems)})
         IN  UNION {UNION {IF o.ok THEN {Append(s, NewObstacle(o, r)) : r \in RadiusSamples}
                                  ELSE {s}
                           : o \in outcomes}
                    : s \in ObstacleLayouts(n - 1, ems)}

RECURSIVE PointLayouts(_, _, _, _)
\* the collection-point lists the second loop of createLevel can build
PointLayouts(n, lvl, ems, obs) ==
    IF n = 0 THEN {<<>>}
    ELSE LET outcomes == PlacementOutcomes(
                 {pt \in draws.points : PointPositionValid(pt, ems, obs)},
                 {pt \in draws.points : ~PointPositionValid(pt, ems, obs)})
         IN  UNION {{IF o.ok THEN Append(s, NewCollectionPoint(o, lvl)) ELSE s
                     : o \in outcomes}
                    : s \in PointLayouts(n - 1, lvl, ems, obs)}

\* the emitters after createLevel: the new ones are pushed onto this.emitters
EmittersAfterCreate(g) ==
    g.emitters \o NewEmitters(g.level, g.spawnRate, g.particleSpeed)

\* every (obstacles, collectionPoints) pair createLevel can produce for g
CreateLevelChoices(g) ==
    LET ems == EmittersAfterCreate(g)
    IN  UNION {{[obstacles |-> obs, collectionPoints |-> cps]
                : cps \in PointLayouts(collectionPointCount + (g.level \div 3),
                                       g.level, ems, obs)}
               : obs \in ObstacleLayouts(obstacleCount + (g.level \div 2), ems)}

\* Game.createLevel with its random draws resolved to lay
createLevel(g, lay) ==
    [g EXCEPT !.emitters = EmittersAfterCreate(g),
              !.obstacles = lay.obstacles,
              !.collectionPoints = lay.collectionPoints]

(***************************************************************************)
(* Particles and emitters: js/particles.js                                 *)
(***************************************************************************)
\* The Particle objects are shared by Game.particles and by the pool of the
\* emitter that created them: objects maps an object's identity to its
\* fields, and both lists hold identities.
NoObjects == [i \in {} |-> 0]
NewId(objs) == CHOOSE n \in 1..(Cardinality(DOMAIN objs) + 1) :
                   n \notin DOMAIN objs /\ \A m \in 1..(n - 1) : m \in DOMAIN objs
Put(objs, id, p) == [i \in (DOMAIN objs) \cup {id} |-> IF i = id THEN p ELSE objs[i]]

\* the sample a choice function gives an identity it was drawn for
Drawn(f, id, default) == IF id \in DOMAIN f THEN f[id] ELSE default

\* new Particle(x, y, {life, ...})
NewParticle(x, y, life) == [x |-> x, y |-> y, life |-> life, active |-> TRUE]

\* an update that steps inactive particles too (a variant, to show
\* C17_LifeAndActiveMonotone reads the early return)
ParticleUpdate_SteppingInactive(p, to) ==
    [x |-> to.x, y |-> to.y, life |-> p.life - 1, active |-> p.life - 1 > 0]

\* Particle.update: returns at once when inactive; otherwise the forces and
\* the position update leave the particle at position to, then life decays
ParticleUpdate(p, to) ==
    IF ~p.active THEN p
    ELSE [x |-> to.x, y |-> to.y, life |-> p.life - 1, active |-> p.life - 1 > 0]

\* Particle.isOutOfBounds(width, height)
isOutOfBounds(p) ==
    \/ p.x < 0 - BoundsMargin
    \/ p.x > CanvasWidth + BoundsMargin
    \/ p.y < 0 - BoundsMargin
    \/ p.y > CanvasHeight + BoundsMargin

RECURSIVE CreateParticles_Uncapped(_, _, _, _, _)
\* the creation loop without its test of the pool size (a variant, to show
\* C37_PoolWithinCap reads the test)
CreateParticles_Uncapped(e, objs, n, lifeOf, created) ==
    IF n = 0
    THEN [emitter |-> e, objects |-> objs, created |-> created, threw |-> FALSE]
    ELSE CreateParticles_Uncapped(
             [e EXCEPT !.particles = Append(@, NewId(objs))],
             Put(objs, NewId(objs), NewParticle(e.x, e.y, Drawn(lifeOf, NewId(objs), LongLife))),
             n - 1, lifeOf, Append(created, NewId(objs)))

RECURSIVE CreateParticles(_, _, _, _, _)
\* the creation loop of ParticleEmitter.emit
CreateParticles(e, objs, n, lifeOf, created) ==
    IF n = 0 \/ Len(e.particles) >= e.maxParticles
    THEN [emitter |-> e, objects |-> objs, created |-> created, threw |-> FALSE]
    ELSE LET id == NewId(objs)
         IN  CreateParticles([e EXCEPT !.particles = Append(@, id)],
                             Put(objs, id, NewParticle(e.x, e.y, Drawn(lifeOf, id, LongLife))),
                             n - 1, lifeOf, Append(created, id))

\* ParticleEmitter.emit.  particlesToCreate is declared const, so the
\* increment taken when the carried remainder reaches 1 raises a TypeError.
\* (In thousandths the remainder of rate 1.2 reaches 1 at the fifth emit; in
\* binary floating point 5 * 0.19999999999999996 < 1 and it is the sixth.)
emit(e, objs, lifeOf) ==
    IF ~e.active
    THEN [emitter |-> e, objects |-> objs, created |-> <<>>, threw |-> FALSE]
    ELSE LET particlesToCreate == e.rate \div 1000
             rateFraction == e.rateFraction + (e.rate - particlesToCreate * 1000)
             e1 == [e EXCEPT !.rateFraction = rateFraction]
         IN  IF rateFraction >= 1000
             THEN [emitter |-> e1, objects |-> objs, created |-> <<>>, threw |-> TRUE]
             ELSE CreateParticles(e1, objs, particlesToCreate, lifeOf, <<>>)

\* ParticleEmitter.update: steps every pooled particle, then drops from the
\* pool those that are inactive or out of bounds
EmitterUpdate(e, objs, t1) ==
    LET ids == Range(e.particles)
        objs1 == [i \in DOMAIN objs |->
                     IF i \in ids THEN ParticleUpdate(objs[i], Drawn(t1, i, objs[i]))
                     ELSE objs[i]]
        keep == {k \in 1..Len(e.particles) :
                     objs1[e.particles[k]].active /\ ~isOutOfBounds(objs1[e.particles[k]])}
    IN  [emitter |-> [e EXCEPT !.particles = SelectIdx(@, keep, 1)], objects |-> objs1]

\* Obstacle.checkCollision, CollectionPoint.checkCollision, PowerUp.checkCollision
ObstacleCheckCollision(o, x, y) == distanceWithin(x, y, o.x, o.y, o.radius)
PointCheckCollision_IgnoringCollected(cp, x, y) == distanceWithin(x, y, cp.x, cp.y, cp.radius)
PointCheckCollision(cp, x, y) == ~cp.collected /\ distanceWithin(x, y, cp.x, cp.y, cp.radius)
PowerUpCheckCollision(pu, x, y) == ~pu.collected /\ distanceWithin(x, y, pu.x, pu.y, pu.radius)

\* CollectionPoint.collect: the value it returns
PointCollectValue(cp) == IF cp.collected THEN 0 ELSE cp.value

(***************************************************************************)
(* One tick: Game.update                                                   *)
(***************************************************************************)
\* The state a tick works on, with what the tick did so far:
\*   stepped        identities that received a physics step in this tick
\*   obstacleTests  one entry per particle the collision loop handled
\*   collections    one entry per CollectionPoint.collect of this tick
\*   pickups        one entry per PowerUp.collect of this tick
InitWork(g, tms) ==
    [particles |-> g.particles, objects |-> g.objects, emitters |-> g.emitters,
     collectionPoints |-> g.collectionPoints, powerUps |-> g.powerUps,
     activePowerUps |-> g.activePowerUps, timers |-> tms, score |-> g.score,
     threw |-> FALSE, stepped |-> {}, obstacleTests |-> <<>>,
     collections |-> <<>>, pickups |-> <<>>, events |-> <<>>]

\* the physics steps of ParticleEmitter.update in the order it takes them
\* (from the end of the pool to its start, inactive particles return at once)
PoolSteps(e, objs) ==
    SelectSeq([k \in 1..Len(e.particles) |->
                  [kind |-> "step", particle |-> e.particles[Len(e.particles) + 1 - k]]],
              LAMBDA ev : objs[ev.particle].active)

RECURSIVE EmitterLoop(_, _, _, _)
\* for (const emitter of this.emitters) { emit(); particles.push(...); update() }
EmitterLoop(w, k, lifeOf, t1) ==
    IF k > Len(w.emitters) \/ w.threw THEN w
    ELSE LET em == emit(w.emitters[k], w.objects, lifeOf)
         IN  IF em.threw
             THEN [w EXCEPT !.emitters[k] = em.emitter, !.threw = TRUE]
             ELSE LET up == EmitterUpdate(em.emitter, em.objects, t1)
                      moved == {i \in Range(em.emitter.particles) : em.objects[i].active}
                  IN  EmitterLoop([w EXCEPT !.emitters[k] = up.emitter,
                                            !.objects = up.objects,
                                            !.particles = @ \o em.created,
                                            !.stepped = @ \cup moved,
                                            !.events = @ \o PoolSteps(em.emitter, em.objects)],
                                  k + 1, lifeOf, t1)

\* ScoreGain without the doubling (a variant, to show C3_CollectionGain reads the flag)
ScoreGain_Single(value, multiplier) == value

\* const scoreGain = this.activePowerUps.multiplier ? value * 2 : value
ScoreGain(value, multiplier) == IF multiplier THEN value * 2 ELSE value

\* the obstacle test without its shield guard (a variant, to show
\* C2_ShieldBlocksObstacles reads the guard)
ObstacleTestHits_IgnoringShield(obs, shield, x, y) ==
    \E k \in 1..Len(obs) : ObstacleCheckCollision(obs[k], x, y)

\* the obstacle test of the collision loop: whether it deactivates a particle at (x, y)
ObstacleTestHits(obs, shield, x, y) ==
    ~shield /\ \E k \in 1..Len(obs) : ObstacleCheckCollision(obs[k], x, y)

RECURSIVE PointLoop(_, _, _, _)
\* for (const point of this.collectionPoints) { if (checkCollision) { collect(); score += ... } }
PointLoop(w, k, id, p) ==
    IF k > Len(w.collectionPoints) THEN w
    ELSE LET cp == w.collectionPoints[k]
         IN  IF PointCheckCollision(cp, p.x, p.y)
             THEN LET value == PointCollectValue(cp)
                      after == w.score + ScoreGain(value, w.activePowerUps.multiplier)
                      w1 == [w EXCEPT !.collectionPoints[k].collected = TRUE,
                                      !.score = after,
                                      !.collections = Append(@,
                                          [particle |-> id, active |-> p.active,
                                           point |-> k, value |-> cp.value,
                                           multiplier |-> w.activePowerUps.multiplier,
                                           before |-> w.score, after |-> after])]
                  IN  PointLoop(w1, k + 1, id, p)
             ELSE PointLoop(w, k + 1, id, p)

\* Game.activatePowerUp: sets the flag and schedules the expiry callback
activatePowerUp(w, type, duration) ==
    [w EXCEPT !.activePowerUps[type] = TRUE,
              !.timers = @ \cup {[type |-> type, remaining |-> duration, stale |-> FALSE]}]

RECURSIVE PowerUpLoop(_, _, _, _)
\* for (const powerUp of this.powerUps) { if (checkCollision) { collect(); activatePowerUp() } }
PowerUpLoop(w, k, id, p) ==
    IF k > Len(w.powerUps) THEN w
    ELSE LET pu == w.powerUps[k]
         IN  IF PowerUpCheckCollision(pu, p.x, p.y)
             THEN PowerUpLoop(
                      activatePowerUp(
                          [w EXCEPT !.powerUps[k].collected = TRUE,
                                    !.pickups = Append(@, [particle |-> id, powerUp |-> k,
                                                           type |-> pu.type,
                                                           duration |-> pu.duration])],
                          pu.type, pu.duration),
                      k + 1, id, p)
             ELSE PowerUpLoop(w, k + 1, id, p)

\* the magnet block of the particle loop: with Magnet active and an
\* uncollected point nearer than 200, "const angle = angle(...)" reads angle
\* before its initialisation and raises a ReferenceError
MagnetThrows(w, p) ==
    /\ w.activePowerUps.magnet
    /\ \E k \in 1..Len(w.collectionPoints) :
          /\ ~w.collectionPoints[k].collected
          /\ distanceBelow(p.x, p.y, w.collectionPoints[k].x, w.collectionPoints[k].y,
                           MagnetRange)

\* whether the particle loop splices the particle out of Game.particles
RemovedFromLiveSet(p) == ~p.active \/ isOutOfBounds(p)

\* one iteration of the particle loop, for the particle at index i
ProcessParticle(w, obs, i, t2) ==
    LET id == w.particles[i]
        p0 == w.objects[id]
    IN  IF MagnetThrows(w, p0) THEN [w EXCEPT !.threw = TRUE]
        ELSE
        LET p1 == ParticleUpdate(p0, Drawn(t2, id, p0))
            shield == w.activePowerUps.shield
            p2 == IF ObstacleTestHits(obs, shield, p1.x, p1.y)
                  THEN [p1 EXCEPT !.active = FALSE] ELSE p1
            w1 == [w EXCEPT !.objects[id] = p2,
                            !.stepped = IF p0.active THEN @ \cup {id} ELSE @,
                            !.events = @ \o (IF p0.active
                                             THEN <<[kind |-> "step", particle |-> id]>>
                                             ELSE <<>>)
                                         \o <<[kind |-> "test", particle |-> id]>>,
                            !.obstacleTests = Append(@,
                                [particle |-> id, shield |-> shield,
                                 inside |-> \E k \in 1..Len(obs) :
                                               ObstacleCheckCollision(obs[k], p1.x, p1.y),
                                 before |-> p1.active, after |-> p2.active])]
            w2 == PointLoop(w1, 1, id, p2)
            w3 == PowerUpLoop(w2, 1, id, p2)
        IN  IF RemovedFromLiveSet(p2)
            THEN [w3 EXCEPT !.particles = SelectIdx(@, (1..Len(@)) \ {i}, 1)]
            ELSE w3

RECURSIVE ParticleLoop(_, _, _, _)
\* for (let i = this.particles.length - 1; i >= 0; i--)
ParticleLoop(w, obs, i, t2) ==
    IF i = 0 \/ w.threw THEN w
    ELSE ParticleLoop(ProcessParticle(w, obs, i, t2), obs, i - 1, t2)

\* the power-up loop after the particle loop: collected power-ups are spliced out
PrunePowerUps(pus) == SelectSeq(pus, LAMBDA pu : ~pu.collected)

\* the tick up to and including the pruning of the power-ups
CollisionPhase(w0, obs, t2) ==
    LET w == ParticleLoop(w0, obs, Len(w0.particles), t2)
    IN  IF w.threw THEN w ELSE [w EXCEPT !.powerUps = PrunePowerUps(@)]

\* Game.spawnPowerUp with its draws resolved: the type and what the
\* placement loop ended with
NoSpawn == [spawn |-> FALSE, type |-> "timeSlow", pos |-> NotPlaced]
SpawnChoices(g, w) ==
    {NoSpawn} \cup
    (IF Len(w.powerUps) >= MaxPowerUps THEN {}
     ELSE {[spawn |-> TRUE, type |-> ty, pos |-> o] :
              ty \in draws.types,
              o \in PlacementOutcomes(
                     {pt \in PowerUpSamples :
                         PowerUpPositionValid(pt, w.emitters, g.obstacles, w.collectionPoints)},
                     {pt \in PowerUpSamples :
                         ~PowerUpPositionValid(pt, w.emitters, g.obstacles, w.collectionPoints)})})

NewPowerUp(pos, type, lvl) ==
    [x |-> pos.x, y |-> pos.y, radius |-> PowerUpRadius, type |-> type,
     duration |-> PowerUpBaseDuration + lvl * PowerUpLevelDuration, collected |-> FALSE]

\* what the log keeps of a spawn: the new power-up and where the emitters were
SpawnView(w, lvl, sp) ==
    IF sp.spawn /\ sp.pos.ok
    THEN <<[powerUp |-> NewPowerUp(sp.pos, sp.type, lvl),
            emitters |-> [k \in 1..Len(w.emitters) |->
                             Pt(w.emitters[k].x, w.emitters[k].y)]]>>
    ELSE <<>>

spawnPowerUp(pus, lvl, sp) ==
    IF sp.spawn /\ sp.pos.ok THEN Append(pus, NewPowerUp(sp.pos, sp.type, lvl)) ELSE pus

\* some() in place of every() (a variant, to show C4_NextLevelIffAllCollected
\* reads the test)
LevelComplete_Some(cps) == \E k \in 1..Len(cps) : cps[k].collected

\* this.collectionPoints.every(point => point.collected)
LevelComplete(cps) == \A k \in 1..Len(cps) : cps[k].collected

\* the bonus computed from the level just left (a variant, to show
\* C5_LevelCompleteTransition reads the bonus)
LevelBonusFor_LevelLeft(lvl) == LevelBonus * (lvl - 1)

\* the bonus of Game.nextLevel, for the level just entered
LevelBonusFor(lvl) == LevelBonus * lvl

\* the difficulty step without the cap of powerUpChance (a variant, to show
\* C35_PowerUpChanceRange reads the cap)
AdvanceLevel_Uncapped(g) ==
    [g EXCEPT !.level = @ + 1,
              !.particleSpeed = MulDiv(@, 11, 10),
              !.spawnRate = MulDiv(@, 11, 10),
              !.powerUpChance = MulDiv(@, 105, 100)]

\* Game.nextLevel up to createLevel: the level counter and the difficulty
AdvanceLevel(g) ==
    [g EXCEPT !.level = @ + 1,
              !.particleSpeed = MulDiv(@, 11, 10),
              !.spawnRate = MulDiv(@, 11, 10),
              !.powerUpChance = Min(MulDiv(@, 105, 100), MaxPowerUpChance)]

\* Game.nextLevel
nextLevel(g, lay) ==
    LET g1 == createLevel(AdvanceLevel(g), lay)
    IN  [g1 EXCEPT !.score = @ + LevelBonusFor(g1.level)]

\* the test of the live set alone (a variant, to show C15_GameOverIff reads
\* the emitters)
CannotContinue_LiveSetOnly(g) == Len(g.particles) = 0

\* the game-over test at the end of update
CannotContinue(g) ==
    /\ Len(g.particles) = 0
    /\ ~\E k \in 1..Len(g.emitters) :
           g.emitters[k].active /\ Len(g.emitters[k].particles) < g.emitters[k].maxParticles

\* Game.endGame: the session state, and the stored high score
endGame(g) == [g EXCEPT !.isPlaying = FALSE]
HighScoreAfter_Overwriting(hs, finalScore) == finalScore
HighScoreAfter(hs, finalScore) == IF finalScore > hs THEN finalScore ELSE hs

\* the objects still referenced by Game.particles or by a pool
Referenced(g) ==
    Range(g.particles) \cup UNION {Range(g.emitters[k].particles) : k \in 1..Len(g.emitters)}
DropUnreferenced(g) ==
    [g EXCEPT !.objects = [i \in (DOMAIN @) \cap Referenced(g) |-> @[i]]]

\* the Game fields a tick's working state carries, written back
WriteBack(g, w) ==
    [g EXCEPT !.particles = w.particles, !.objects = w.objects, !.emitters = w.emitters,
              !.collectionPoints = w.collectionPoints, !.powerUps = w.powerUps,
              !.activePowerUps = w.activePowerUps, !.score = w.score]

(***************************************************************************)
(* Pointer input: js/input.js                                              *)
(***************************************************************************)
\* A path is kept as its age (Date.now() - timestamp, saturated just above
\* pathLifetime, past which nothing reads it), whether it is the object
\* currentPath refers to, and the number of its points.
NewPath == [age |-> 0, current |-> TRUE, points |-> 1]

\* InputHandler.update: paths older than pathLifetime are spliced out
InputUpdate(inp) ==
    [inp EXCEPT !.paths = SelectSeq(@, LAMBDA q : ~(q.age > pathLifetime))]

\* InputHandler.clearPaths
clearPaths(inp) == [isDrawing |-> FALSE, currentPath |-> FALSE, paths |-> <<>>]

\* InputHandler.handleStart, past its isPlaying guard
handleStart(inp) ==
    LET old == [k \in 1..Len(inp.paths) |-> [inp.paths[k] EXCEPT !.current = FALSE]]
        pushed == Append(old, NewPath)
    IN  [isDrawing |-> TRUE, currentPath |-> TRUE,
         paths |-> IF Len(pushed) > maxPaths THEN Tail(pushed) ELSE pushed]

\* InputHandler.handleEnd
handleEnd(inp) ==
    [inp EXCEPT !.isDrawing = FALSE, !.currentPath = FALSE,
                !.paths = [k \in 1..Len(@) |-> [@[k] EXCEPT !.current = FALSE]]]

(***************************************************************************)
(* State                                                                   *)
(***************************************************************************)
NoPowerUps == [ty \in PowerUpTypes |-> FALSE]

BlankLog ==
    [handler |-> "none", started |-> FALSE, reset |-> <<>>, ticked |-> FALSE,
     threw |-> FALSE, before |-> <<>>, obstacles |-> <<>>, stepped |-> {},
     obstacleTests |-> <<>>, collections |-> <<>>, pickups |-> <<>>,
     checkReached |-> FALSE, pointsAtCheck |-> <<>>, scoreAtCheck |-> 0,
     levelAtCheck |-> 0, over |-> FALSE, hidden |-> FALSE,
     wasPaused |-> FALSE, spawned |-> <<>>, expired |-> <<>>, events |-> <<>>]

\* the Game constructor
\* no particle is probed
NoProbe ==
    [on |-> FALSE, ticks |-> 0, x |-> 0, v |-> 0, free |-> 0, moved |-> 0, freeMoved |-> 0,
     slow |-> FALSE, magnet |-> FALSE, nearest |-> 0, vPool |-> 0, force |-> 0,
     forced |-> FALSE, added |-> 0, threw |-> FALSE, trail |-> <<>>, steps |-> 0]

Init ==
    /\ game = [isPlaying |-> FALSE, isPaused |-> FALSE, score |-> 0, level |-> 1,
               emitters |-> <<>>, obstacles |-> <<>>, collectionPoints |-> <<>>,
               powerUps |-> <<>>, particles |-> <<>>, objects |-> NoObjects,
               activePowerUps |-> NoPowerUps,
               particleSpeed |-> InitialMultiplier, spawnRate |-> InitialMultiplier,
               powerUpChance |-> InitialPowerUpChance]
    /\ input = [isDrawing |-> FALSE, currentPath |-> FALSE, paths |-> <<>>]
    /\ timers = {}
    /\ frames = 0
    /\ highScore = 0
    /\ sessions = 0
    /\ draws \in DrawFamilies
    /\ log = BlankLog
    /\ probe = NoProbe

Commit(g, inp, tms, fr, hs, lg) ==
    /\ game' = g
    /\ input' = inp
    /\ timers' = tms
    /\ frames' = fr
    /\ highScore' = hs
    /\ log' = lg
    /\ draws' = draws
    /\ probe' = probe

\* what the log keeps of the particles that were stepped in a tick
SteppedView(w, ids) ==
    {[particle |-> id, x |-> w.objects[id].x, y |-> w.objects[id].y,
      active |-> w.objects[id].active, live |-> id \in Range(w.particles)] : id \in ids}

TickLog(lg, g, w) ==
    [lg EXCEPT !.ticked = TRUE, !.threw = w.threw,
               !.before = [level |-> g.level, score |-> g.score,
                           activePowerUps |-> g.activePowerUps],
               !.obstacles = g.obstacles,
               !.stepped = SteppedView(w, w.stepped),
               !.obstacleTests = w.obstacleTests,
               !.collections = w.collections,
               !.pickups = w.pickups,
               !.events = w.events]

(***************************************************************************)
(* Game.gameLoop: update, draw, requestAnimationFrame                      *)
(***************************************************************************)
\* g, inp, tms, fr: the state gameLoop is entered with; fr counts the frame
\* callbacks pending besides the one gameLoop requests itself
gameLoop(g, inp, tms, fr, lg) ==
    IF ~g.isPlaying \/ g.isPaused
    THEN Commit(g, inp, tms, fr, highScore, lg)
    ELSE
    \E plan \in {EmitterLoop(InitWork(g, tms), 1, NoObjects, NoObjects)} :
    \E lifeOf \in [(DOMAIN plan.objects) \ (DOMAIN g.objects) -> draws.lives] :
    \E t1 \in [plan.stepped -> draws.pool] :
    \E we \in {EmitterLoop(InitWork(g, tms), 1, lifeOf, t1)} :
    \E t2 \in [(IF we.threw THEN {}
                ELSE {id \in Range(we.particles) : we.objects[id].active}) -> draws.loop] :
    \E w \in {CollisionPhase(we, g.obstacles, t2)} :
      IF w.threw
      THEN \* the error leaves update and gameLoop: no frame is requested
           Commit(DropUnreferenced(WriteBack(g, w)), InputUpdate(inp), w.timers, fr,
                  highScore, TickLog(lg, g, w))
      ELSE
      \E sp \in SpawnChoices(g, w) :
      \E g2 \in {[WriteBack(g, w) EXCEPT !.powerUps = spawnPowerUp(@, g.level, sp)]} :
      \E lay \in (IF LevelComplete(g2.collectionPoints)
                  THEN CreateLevelChoices(AdvanceLevel(g2))
                  ELSE {[obstacles |-> g2.obstacles,
                         collectionPoints |-> g2.collectionPoints]}) :
      \E g3 \in {IF LevelComplete(g2.collectionPoints) THEN nextLevel(g2, lay) ELSE g2} :
        Commit(DropUnreferenced(IF CannotContinue(g3) THEN endGame(g3) ELSE g3),
               InputUpdate(inp), w.timers, fr + 1,
               IF CannotContinue(g3) THEN HighScoreAfter(highScore, g3.score)
               ELSE highScore,
               [TickLog(lg, g, w) EXCEPT
                   !.checkReached = TRUE,
                   !.events = w.events \o <<[kind |-> "check", particle |-> 0]>>,
                   !.spawned = SpawnView(w, g.level, sp),
                   !.pointsAtCheck = g2.collectionPoints,
                   !.scoreAtCheck = g2.score,
                   !.levelAtCheck = g2.level,
                   !.over = CannotContinue(g3)])

(***************************************************************************)
(* Handlers                                                                *)
(***************************************************************************)
\* the reset without the score (a variant, to show C9_StartResetsWhenNotPlaying
\* reads the reset)
ResetSession_KeepingScore(g) ==
    [g EXCEPT !.isPlaying = TRUE, !.isPaused = FALSE, !.level = 1,
              !.particleSpeed = InitialMultiplier, !.spawnRate = InitialMultiplier,
              !.emitters = <<>>, !.obstacles = <<>>, !.collectionPoints = <<>>,
              !.powerUps = <<>>, !.particles = <<>>, !.objects = NoObjects,
              !.activePowerUps = NoPowerUps]

\* Game.start up to createLevel: the reset of the session state
ResetSession(g) ==
    [g EXCEPT !.isPlaying = TRUE, !.isPaused = FALSE, !.score = 0, !.level = 1,
              !.particleSpeed = InitialMultiplier, !.spawnRate = InitialMultiplier,
              !.emitters = <<>>, !.obstacles = <<>>, !.collectionPoints = <<>>,
              !.powerUps = <<>>, !.particles = <<>>, !.objects = NoObjects,
              !.activePowerUps = NoPowerUps]

\* a start that cancelled the pending callbacks (a variant, to show
\* C22_StartKeepsPendingExpiries reads what start does to them)
Outlived_Cancelled(tms) == {}

\* the callbacks still pending when a session starts were scheduled before it
Outlived(tms) == {[tm EXCEPT !.stale = TRUE] : tm \in tms}

\* Game.start and Game.restart (the start button, the restart button)
Start ==
    IF game.isPlaying
    THEN /\ Commit(game, input, timers, frames, highScore,
                   [BlankLog EXCEPT !.handler = "start"])
         /\ UNCHANGED sessions
    ELSE /\ frames < MaxFrames
         /\ sessions < 1 + draws.restarts
         /\ sessions' = sessions + 1
         /\ \E lay \in CreateLevelChoices(ResetSession(game)) :
            \E g0 \in {createLevel(ResetSession(game), lay)} :
              gameLoop(g0, clearPaths(input), Outlived(timers), frames,
                       [BlankLog EXCEPT
                           !.handler = "start", !.started = TRUE,
                           !.reset = [game |-> g0, input |-> clearPaths(input),
                                      was |-> [score |-> game.score, level |-> game.level,
                                               paths |-> Len(input.paths)]]])

\* a requestAnimationFrame callback runs gameLoop
Frame ==
    /\ frames > 0
    /\ UNCHANGED sessions
    /\ gameLoop(game, input, timers, frames - 1, [BlankLog EXCEPT !.handler = "frame"])

\* the flip without the early return (a variant, to show
\* C14_TogglePauseEffect reads the early return)
togglePause_Unguarded(g) == [g EXCEPT !.isPaused = ~@]

\* Game.togglePause.  Game has no pauseButton field (the button is a field of
\* the UI object), so the statement after the flip of isPaused raises a
\* TypeError and the call of gameLoop on a resume is never reached.
togglePause(g) ==
    IF ~g.isPlaying THEN g ELSE [g EXCEPT !.isPaused = ~@]

\* the pause button
TogglePause ==
    /\ UNCHANGED sessions
    /\ Commit(togglePause(game), input, timers, frames, highScore,
              [BlankLog EXCEPT !.handler = "togglePause"])

\* the listener's test with the test of isPaused left out (a variant, to show
\* C13_HiddenTabPauses reads it)
VisibilityPauses_AlsoPaused(hidden, g) == hidden /\ g.isPlaying

\* the test of the visibilitychange listener
VisibilityPauses(hidden, g) == hidden /\ g.isPlaying /\ ~g.isPaused

\* the visibilitychange listener: the tab became hidden or visible
VisibilityChange ==
    \E hidden \in BOOLEAN :
      /\ UNCHANGED sessions
      /\ Commit(IF VisibilityPauses(hidden, game) THEN togglePause(game) ELSE game,
                input, timers, frames, highScore,
                [BlankLog EXCEPT !.handler = "visibilitychange", !.hidden = hidden,
                                 !.wasPaused = game.isPaused])

\* mousedown / touchstart
HandleStart ==
    /\ game.isPlaying
    /\ Len(input.paths) < draws.strokes
    /\ UNCHANGED sessions
    /\ Commit(game, handleStart(input), timers, frames, highScore,
              BlankLog)

\* mouseup / mouseleave / touchend / touchcancel
HandleEnd ==
    /\ input.isDrawing
    /\ UNCHANGED sessions
    /\ Commit(game, handleEnd(input), timers, frames, highScore,
              BlankLog)

\* the expiry callback of activatePowerUp: this.activePowerUps[type] = false
Expire ==
    \E tm \in timers :
      /\ tm.remaining = 0
      /\ UNCHANGED sessions
      /\ Commit([game EXCEPT !.activePowerUps[tm.type] = FALSE], input, timers \ {tm},
                frames, highScore,
                [BlankLog EXCEPT !.handler = "expire", !.expired = <<tm>>])

\* wall-clock time passes: up to TimeQuantum, and not past a callback that is due
Elapse ==
    LET dt == IF timers = {} THEN TimeQuantum
              ELSE Min(TimeQuantum,
                       CHOOSE r \in {tm.remaining : tm \in timers} :
                           \A tm \in timers : r <= tm.remaining)
    IN  /\ dt > 0
        /\ UNCHANGED sessions
        /\ \/ timers # {}
           \/ \E k \in 1..Len(input.paths) : ~(input.paths[k].age > pathLifetime)
        /\ Commit(game,
                  [input EXCEPT !.paths =
                      [k \in 1..Len(@) |->
                          [@[k] EXCEPT !.age = Min(@ + dt, pathLifetime + 1)]]],
                  {[tm EXCEPT !.remaining = @ - dt] : tm \in timers},
                  frames, highScore, BlankLog)

Next ==
    \/ Start
    \/ Frame
    \/ TogglePause
    \/ VisibilityChange
    \/ HandleStart
    \/ HandleEnd
    \/ Expire
    \/ Elapse

Spec == Init /\ [][Next]_vars

(***************************************************************************)
(* The velocity of one particle over the ticks of a session                *)
(***************************************************************************)
\* speedX a particle is emitted with (speed 1.1 x random(0.8, 1.2) x cos(angle)
\* at level 1), in millionths
SpeedSamples == {1250000, 1000000}
\* the sum of the forces Particle.update adds in one step (gravity is 0 for
\* every emitter createLevel makes; the path-follow force is at most 0.1)
ForceSamples == {0, PathFollowForce \div 2}
\* the collection points as the magnet block sees them: distance from the
\* particle in canvas units, and the collected flag
PointSamples ==
    {<<[dist |-> 150, collected |-> FALSE]>>,
     <<[dist |-> 250, collected |-> FALSE]>>,
     <<[dist |-> 150, collected |-> TRUE], [dist |-> 250, collected |-> FALSE]>>}

\* this.speedX *= 0.98
Friction(v) == (v * FrictionPercent) \div 100

\* particle.speedX *= speedMultiplier, with speedMultiplier 0.5 under Time-slow
TimeSlowScale(slow, v) == IF slow THEN v \div 2 ELSE v

\* Particle.update on the velocity and the position: the forces, the
\* friction, then the position step
ParticleStep(x, v, force) ==
    [x |-> x + Friction(v + force), v |-> Friction(v + force)]

\* the search of the magnet block: the distance of the closest uncollected
\* point, 0 when every point is collected
ClosestDistance(points) ==
    LET open == {points[k].dist : k \in {j \in 1..Len(points) : ~points[j].collected}}
    IN  IF open = {} THEN 0 ELSE CHOOSE d \in open : \A e \in open : d <= e

\* if (closestPoint && closestDistance < 200)
MagnetInRange(points) ==
    /\ \E k \in 1..Len(points) : ~points[k].collected
    /\ ClosestDistance(points) < MagnetRange

\* one tick of Game.update for a live particle (it is in the pool of its
\* emitter and in Game.particles): emitter.update steps it; then the particle
\* loop scales the stored speed under Time-slow, runs the magnet block and
\* steps it again.  In the magnet block "const angle = angle(...)" reads the
\* block's own angle before it is initialised: a ReferenceError leaves
\* update before any force is added.  free is the velocity the same particle
\* has had Time-slow never been active.
ProbeTick ==
    /\ probe.on
    /\ ~probe.threw
    /\ probe.ticks < MaxProbeTicks
    /\ \E slow \in BOOLEAN, magnet \in BOOLEAN, force \in ForceSamples,
          points \in PointSamples :
        \E pool \in {ParticleStep(probe.x, probe.v, force)} :
        \E scaled \in {TimeSlowScale(slow, pool.v)} :
        \E loop \in {ParticleStep(pool.x, scaled, force)} :
        \E f1 \in {Friction(probe.free + force)} :
        \E f2 \in {Friction(f1 + force)} :
          probe' =
            IF magnet /\ MagnetInRange(points)
            THEN [probe EXCEPT !.ticks = @ + 1, !.x = pool.x, !.v = scaled,
                               !.moved = pool.x - probe.x, !.free = f2,
                               !.freeMoved = f1 + f2, !.slow = slow, !.magnet = magnet,
                               !.nearest = ClosestDistance(points), !.vPool = pool.v,
                               !.force = force, !.forced = @ \/ force # 0,
                               !.added = 0, !.threw = TRUE]
            ELSE [probe EXCEPT !.ticks = @ + 1, !.x = loop.x, !.v = loop.v,
                               !.moved = loop.x - probe.x, !.free = f2,
                               !.freeMoved = f1 + f2, !.slow = slow, !.magnet = magnet,
                               !.nearest = ClosestDistance(points), !.vPool = pool.v,
                               !.force = force, !.forced = @ \/ force # 0,
                               !.added = 0, !.threw = FALSE]
    /\ UNCHANGED <<game, input, timers, frames, highScore, sessions, draws, log>>

PhysicsInit ==
    /\ game = [isPlaying |-> FALSE, isPaused |-> FALSE, score |-> 0, level |-> 1,
               emitters |-> <<>>, obstacles |-> <<>>, collectionPoints |-> <<>>,
               powerUps |-> <<>>, particles |-> <<>>, objects |-> NoObjects,
               activePowerUps |-> NoPowerUps,
               particleSpeed |-> InitialMultiplier, spawnRate |-> InitialMultiplier,
               powerUpChance |-> InitialPowerUpChance]
    /\ input = [isDrawing |-> FALSE, currentPath |-> FALSE, paths |-> <<>>]
    /\ timers = {}
    /\ frames = 0
    /\ highScore = 0
    /\ sessions = 0
    /\ draws = Family({}, {}, {}, {}, {}, 0)
    /\ log = BlankLog
    /\ \E speed \in SpeedSamples :
          probe = [NoProbe EXCEPT !.on = TRUE, !.v = speed, !.free = speed]

PhysicsNext == ProbeTick

PhysicsSpec == PhysicsInit /\ [][PhysicsNext]_vars

(***************************************************************************)
(* The difficulty multipliers over the levels and sessions of a run        *)
(***************************************************************************)
DifficultyInit ==
    /\ game = [isPlaying |-> FALSE, isPaused |-> FALSE, score |-> 0, level |-> 1,
               emitters |-> <<>>, obstacles |-> <<>>, collectionPoints |-> <<>>,
               powerUps |-> <<>>, particles |-> <<>>, objects |-> NoObjects,
               activePowerUps |-> NoPowerUps,
               particleSpeed |-> InitialMultiplier, spawnRate |-> InitialMultiplier,
               powerUpChance |-> InitialPowerUpChance]
    /\ input = [isDrawing |-> FALSE, currentPath |-> FALSE, paths |-> <<>>]
    /\ timers = {}
    /\ frames = 0
    /\ highScore = 0
    /\ sessions = 0
    /\ draws = Family({}, {}, {}, {}, {}, 0)
    /\ log = BlankLog
    /\ probe = NoProbe

\* what Game.start does to the level and to the multipliers
DifficultyStart ==
    /\ game' = ResetSession(endGame(game))
    /\ UNCHANGED <<input, timers, frames, highScore, sessions, draws, log, probe>>

\* what Game.nextLevel does to the level and to the multipliers
DifficultyNextLevel ==
    /\ game.isPlaying
    /\ game.level < MaxLevels
    /\ game' = AdvanceLevel(game)
    /\ UNCHANGED <<input, timers, frames, highScore, sessions, draws, log, probe>>

DifficultyNext == DifficultyStart \/ DifficultyNextLevel

DifficultySpec == DifficultyInit /\ [][DifficultyNext]_vars

(***************************************************************************)
(* The trail of one particle                                               *)
(***************************************************************************)
\* a push that drops the newest position of a full trail (a variant, to show
\* C32_TrailBounded reads which end is dropped)
TrailPush_DropNewest(trail, pos) ==
    IF Len(trail) + 1 > maxTrailLength THEN trail ELSE Append(trail, pos)

\* this.trail.push({x, y}); if (this.trail.length > this.maxTrailLength) this.trail.shift()
TrailPush(trail, pos) ==
    IF Len(Append(trail, pos)) > maxTrailLength
    THEN Tail(Append(trail, pos))
    ELSE Append(trail, pos)

\* one Particle.update of an active particle: the velocity and position
\* step, then the push of the new position onto the trail
TrailStep ==
    /\ probe.on
    /\ probe.steps < MaxTrailSteps
    /\ \E force \in ForceSamples :
        \E step \in {ParticleStep(probe.x, probe.v, force)} :
          probe' = [probe EXCEPT !.x = step.x, !.v = step.v, !.force = force,
                                 !.steps = @ + 1,
                                 !.trail = TrailPush(@, step.x)]
    /\ UNCHANGED <<game, input, timers, frames, highScore, sessions, draws, log>>

TrailNext == TrailStep

TrailSpec == PhysicsInit /\ [][TrailNext]_vars

(***************************************************************************)
(* Properties                                                              *)
(***************************************************************************)
InsideAnObstacle(obs, x, y) ==
    \E k \in 1..Len(obs) : distanceSq(x, y, obs[k].x, obs[k].y) <= obs[k].radius * obs[k].radius

\* C1: a pickup of type T with duration d at time t keeps T's flag true
\* throughout [t, t + d), also when T was already active: as long as the expiry
\* of a pickup of the running session lies ahead, the flag of its type is true.
C1_FlagHeldForDuration ==
    \A tm \in timers : (~tm.stale /\ tm.remaining > 0) => game.activePowerUps[tm.type]

\* C2: while the Shield flag is true the obstacle test of a tick deactivates
\* no particle: every particle tested under Shield leaves the test as active
\* as it entered it.
C2_ShieldBlocksObstacles ==
    \A k \in 1..Len(log.obstacleTests) :
        log.obstacleTests[k].shield =>
            log.obstacleTests[k].after = log.obstacleTests[k].before

\* an active particle inside an obstacle was tested under Shield and stayed
\* active and live
C2_ShieldedInsideObstacle ==
    \E k \in 1..Len(log.obstacleTests) :
        /\ log.obstacleTests[k].shield
        /\ log.obstacleTests[k].inside
        /\ log.obstacleTests[k].before
        /\ log.obstacleTests[k].after
        /\ log.obstacleTests[k].particle \in Range(game.particles)

\* C3: every collection of an uncollected point of value v raises the score
\* by exactly 2v when Multiplier is true at that moment and by exactly v when
\* it is false, and nothing else is added for a collection: the collections
\* of a tick chain from the score the tick began with to the score at the
\* level-complete check.
C3_CollectionGain ==
    /\ \A k \in 1..Len(log.collections) :
          LET c == log.collections[k]
          IN  /\ c.value > 0
              /\ c.after - c.before = IF c.multiplier THEN 2 * c.value ELSE c.value
              /\ c.before = IF k = 1 THEN log.before.score ELSE log.collections[k - 1].after
    /\ log.checkReached =>
          log.scoreAtCheck = IF log.collections = <<>> THEN log.before.score
                             ELSE log.collections[Len(log.collections)].after

\* a collection made while Multiplier was true
C3_DoubledCollection ==
    \E k \in 1..Len(log.collections) :
        /\ log.collections[k].multiplier
        /\ log.collections[k].after = log.collections[k].before + 2 * log.collections[k].value

\* C4: in every tick, nextLevel runs if and only if at the level-complete
\* check every collection point has collected = true (a tick that does not
\* reach the check leaves the level alone).
C4_NextLevelIffAllCollected ==
    /\ log.checkReached =>
          /\ game.level \in {log.levelAtCheck, log.levelAtCheck + 1}
          /\ (game.level = log.levelAtCheck + 1)
                <=> (\A k \in 1..Len(log.pointsAtCheck) : log.pointsAtCheck[k].collected)
    /\ (log.ticked /\ ~log.checkReached) => game.level = log.before.level

\* nextLevel ran in the tick that collected the last of several points lying
\* in different places
C4_AdvancedOnLastPoint ==
    /\ log.checkReached
    /\ game.level = log.levelAtCheck + 1
    /\ log.collections # <<>>
    /\ \E j, k \in 1..Len(log.pointsAtCheck) :
          log.pointsAtCheck[j].x # log.pointsAtCheck[k].x
    /\ \A k \in 1..Len(log.pointsAtCheck) : log.pointsAtCheck[k].collected

\* C5: each level-complete transition increases level by exactly 1, adds
\* exactly 100 x the new level to the score, regenerates the layout (fresh,
\* uncollected collection points of the new level) and leaves the session
\* Playing.
C5_LevelCompleteTransition ==
    (log.checkReached /\ game.level # log.levelAtCheck) =>
        /\ game.level = log.levelAtCheck + 1
        /\ game.score = log.scoreAtCheck + 100 * game.level
        /\ game.score >= log.scoreAtCheck
        /\ Len(game.obstacles) <= obstacleCount + (game.level \div 2)
        /\ Len(game.collectionPoints) <= collectionPointCount + (game.level \div 3)
        /\ \A k \in 1..Len(game.collectionPoints) :
              /\ ~game.collectionPoints[k].collected
              /\ game.collectionPoints[k].radius = 15 + game.level
              /\ game.collectionPoints[k].value = 10 * (1 + (game.level \div 2))
        /\ game.isPlaying
        /\ ~game.isPaused

\* the last point of a level was collected and the next level was entered
C5_LevelEnteredByCollecting ==
    /\ log.checkReached
    /\ log.collections # <<>>
    /\ game.level = log.levelAtCheck + 1
    /\ game.collectionPoints # <<>>

\* C6: with Shield inactive, every particle whose position after its physics
\* step lies within an obstacle's radius is deactivated and removed from the
\* live set within that same tick.
C6_ObstacleHitRemoves ==
    (log.ticked /\ ~log.before.activePowerUps.shield /\ ~game.activePowerUps.shield) =>
        \A s \in log.stepped :
            InsideAnObstacle(log.obstacles, s.x, s.y) => (~s.active /\ ~s.live)

\* C7: within one tick a single particle triggers at most one collection.
C7_OneCollectionPerParticle ==
    \A j, k \in 1..Len(log.collections) :
        j # k => log.collections[j].particle # log.collections[k].particle

\* C8: only active particles collect: a particle that became inactive in the
\* current tick marks no point collected and adds nothing to the score.
C8_OnlyActiveCollect ==
    \A k \in 1..Len(log.collections) : log.collections[k].active

\* what start's reset leaves, before the first tick start runs
StartedClean ==
    LET r == log.reset.game
    IN  /\ r.isPlaying
        /\ ~r.isPaused
        /\ r.score = 0
        /\ r.level = 1
        /\ \A ty \in PowerUpTypes : ~r.activePowerUps[ty]
        /\ r.powerUps = <<>>
        /\ r.particles = <<>>
        /\ log.reset.input.paths = <<>>
        /\ Len(r.emitters) = 1
        /\ r.emitters[1].particles = <<>>
        /\ Len(r.obstacles) <= obstacleCount
        /\ Len(r.collectionPoints) <= collectionPointCount
        /\ \A k \in 1..Len(r.collectionPoints) :
              /\ ~r.collectionPoints[k].collected
              /\ r.collectionPoints[k].radius = 16
              /\ r.collectionPoints[k].value = 10

\* C9 (amended): start, and therefore restart, invoked while the session is
\* not playing (Idle, GameOver) resets it -- Playing, not paused, score 0,
\* level 1, the four flags false, no power-ups, no paths, no particles, a
\* fresh level-1 layout -- before it runs the first tick; invoked while
\* isPlaying is true (Playing, Paused) it returns at once and changes nothing.
C9_StartResetsWhenNotPlaying ==
    /\ [](log.started => StartedClean)
    /\ [][/\ game.isPlaying => ~log'.started
          /\ (log'.handler = "start" /\ ~log'.started) =>
                (game' = game /\ input' = input /\ timers' = timers /\ frames' = frames)]_vars

\* a restart after a game over at level 2 that left a score and a path
C9_RestartAfterGameOver ==
    /\ log.started
    /\ sessions > 1
    /\ log.reset.was.score > 0
    /\ log.reset.was.level > 1
    /\ log.reset.was.paths > 0
    /\ StartedClean

\* C9 as stated: start invoked in any state (Idle, Playing, Paused, GameOver)
\* leaves the session reset.
C9_StartResetsInAnyState ==
    (log.handler = "start") => (log.started /\ StartedClean /\ ~game.isPaused)

\* C10: after every start the difficulty multipliers particleSpeed, spawnRate
\* and powerUpChance hold their initial values: nothing carries over from the
\* previous session.
C10_DifficultyResetAtStart ==
    log.started =>
        /\ log.reset.game.particleSpeed = InitialMultiplier
        /\ log.reset.game.spawnRate = InitialMultiplier
        /\ log.reset.game.powerUpChance = InitialPowerUpChance

\* the session state a pause is meant to freeze; the paths by their number
\* (their age is wall-clock time)
PausedView ==
    [score |-> game.score, level |-> game.level, particles |-> game.particles,
     objects |-> game.objects, emitters |-> game.emitters, obstacles |-> game.obstacles,
     collectionPoints |-> game.collectionPoints, powerUps |-> game.powerUps,
     activePowerUps |-> game.activePowerUps, paths |-> Len(input.paths)]

\* C11: between a pause and the following resume no session state changes:
\* every step taken while the session is paused leaves score, level,
\* particles, emitters, obstacles, collection points, power-ups, the four
\* flags and the paths as they were, whatever timer or pointer event it is.
C11_NothingChangesWhilePaused ==
    [][(game.isPaused /\ game'.isPaused) => PausedView' = PausedView]_vars

\* no emitter has failed in emit
NoEmitterFailed ==
    \A k \in 1..Len(game.emitters) : game.emitters[k].rateFraction < 1000

\* C12: after a resume in a session that is not over the update loop runs
\* again: a tick eventually executes, also when a frame callback fired while
\* the session was paused.  A tick is run by a frame callback or by start,
\* and start returns at once while isPlaying is true, so a tick can follow a
\* resume only if a frame callback is pending once togglePause has returned.
C12_FramePendingAfterResume ==
    (log.handler = "togglePause" /\ game.isPlaying /\ ~game.isPaused /\ NoEmitterFailed)
        => frames > 0

\* C13: when the tab becomes hidden while the session is Playing and not
\* paused, the session is Paused afterwards and nothing else changed; a
\* visibility change in any other state changes nothing; and while the
\* session is paused no handler runs a tick or changes the session through
\* gameLoop.
C13_HiddenTabPauses ==
    [][/\ (log'.handler = "visibilitychange") =>
             /\ input' = input /\ timers' = timers /\ frames' = frames
             /\ highScore' = highScore
             /\ game' = IF log'.hidden /\ game.isPlaying /\ ~game.isPaused
                        THEN [game EXCEPT !.isPaused = TRUE]
                        ELSE game
       /\ (game.isPlaying /\ game.isPaused) => ~log'.ticked
       /\ (game.isPlaying /\ game.isPaused /\ log'.handler \in {"frame", "start"}) =>
             (game' = game /\ input' = input /\ timers' = timers
                /\ highScore' = highScore)]_vars

\* the tab became hidden during play with a frame callback pending, and the
\* session is paused
C13_PausedByHiddenTab ==
    /\ log.handler = "visibilitychange"
    /\ log.hidden
    /\ ~log.wasPaused
    /\ game.isPlaying
    /\ game.isPaused
    /\ game.particles # <<>>
    /\ frames > 0

\* C14: togglePause invoked while isPlaying is false (Idle, GameOver) changes
\* no state and schedules no tick; invoked in Playing or Paused it flips
\* isPaused and changes nothing else of the session state.
C14_TogglePauseEffect ==
    [][(log'.handler = "togglePause") =>
          /\ input' = input /\ timers' = timers /\ frames' = frames
          /\ highScore' = highScore
          /\ game' = IF game.isPlaying
                     THEN [game EXCEPT !.isPaused = ~game.isPaused]
                     ELSE game]_vars

\* togglePause was invoked after a game over and the session is as the game
\* over left it: not playing, not paused, no particle live
C14_TogglePauseAfterGameOver ==
    /\ log.handler = "togglePause"
    /\ sessions > 0
    /\ ~game.isPlaying
    /\ ~game.isPaused
    /\ game.particles = <<>>

\* C15: in every tick the session enters GameOver if and only if, after the
\* collision resolution, the pruning and the level-complete check of that
\* tick, the live particle set is empty and no emitter is both active and
\* has a pool smaller than its maxParticles (a tick that does not reach the
\* test leaves the session Playing).
C15_GameOverIff ==
    /\ log.checkReached =>
          /\ (~game.isPlaying) <=>
                /\ game.particles = <<>>
                /\ \A k \in 1..Len(game.emitters) :
                      \/ ~game.emitters[k].active
                      \/ Len(game.emitters[k].particles) >= game.emitters[k].maxParticles
          /\ log.over <=> ~game.isPlaying
    /\ (log.ticked /\ ~log.checkReached) => game.isPlaying

\* a tick ended the session at level 2: the live set was empty and the pool
\* of each of the two emitters was full
C15_GameOverWithFullPools ==
    /\ log.checkReached
    /\ log.over
    /\ ~game.isPlaying
    /\ game.level > 1
    /\ Len(game.emitters) > 1
    /\ game.particles = <<>>

\* a tick whose test found the live set empty and an emitter able to emit,
\* and left the session Playing
C15_EmptyLiveSetButPlaying ==
    /\ log.checkReached
    /\ ~log.over
    /\ game.isPlaying
    /\ game.particles = <<>>

\* C16: a collection point's collected flag, once true, stays true in every
\* later state of that level; a collected point reports no collision, so a
\* tick collects no point that was collected before it and no point twice;
\* and collect() of a collected point returns 0: each point contributes its
\* value at most once.
C16_CollectedOnce ==
    /\ [](\A k \in 1..Len(game.collectionPoints) :
             game.collectionPoints[k].collected =>
                 PointCollectValue(game.collectionPoints[k]) = 0)
    /\ [][/\ (game'.level = game.level /\ ~log'.started) =>
                /\ Len(game'.collectionPoints) = Len(game.collectionPoints)
                /\ \A k \in 1..Len(game.collectionPoints) :
                      game.collectionPoints[k].collected =>
                          game'.collectionPoints[k].collected
          /\ \A j \in 1..Len(log'.collections) :
                LET c == log'.collections[j]
                    points == IF log'.started THEN log'.reset.game.collectionPoints
                              ELSE game.collectionPoints
                IN  /\ ~points[c.point].collected
                    /\ \A i \in 1..Len(log'.collections) :
                          i # j => log'.collections[i].point # c.point]_vars

\* a tick in which a live, active particle ended inside a point that had
\* been collected in an earlier tick of the level, and collected nothing
C16_CollectedPointVisitedAgain ==
    /\ log.ticked
    /\ log.handler = "frame"
    /\ log.collections = <<>>
    /\ game.level = log.before.level
    /\ \E s \in log.stepped : \E k \in 1..Len(game.collectionPoints) :
          /\ s.active
          /\ s.live
          /\ game.collectionPoints[k].collected
          /\ distanceSq(s.x, s.y, game.collectionPoints[k].x, game.collectionPoints[k].y)
                <= game.collectionPoints[k].radius * game.collectionPoints[k].radius

\* C17: for every particle, life never increases while it is active, and
\* once active is false it is never true again: across every step of a
\* session each particle that persists has no more life than before if it
\* was active and is inactive if it was inactive, and a tick leaves every
\* particle it stepped that was inactive before inactive.
C17_LifeAndActiveMonotone ==
    [][(~log'.started) =>
          /\ \A id \in (DOMAIN game.objects) \cap (DOMAIN game'.objects) :
                /\ game.objects[id].active =>
                      game'.objects[id].life <= game.objects[id].life
                /\ ~game.objects[id].active =>
                      /\ ~game'.objects[id].active
                      /\ game'.objects[id].life = game.objects[id].life
          /\ \A s \in log'.stepped :
                (s.particle \in DOMAIN game.objects /\ ~game.objects[s.particle].active)
                    => ~s.active]_vars

\* a tick stepped a particle that then lost its activity and is still held
\* by a pool, where the next update of its emitter will step it again
C17_InactiveParticlePooled ==
    /\ log.ticked
    /\ game.isPlaying
    /\ \E s \in log.stepped :
          /\ ~s.active
          /\ s.particle \in DOMAIN game.objects
          /\ ~game.objects[s.particle].active
          /\ game.objects[s.particle].life < LongLife
          /\ game.objects[s.particle].life > 0
          /\ \E k \in 1..Len(game.emitters) :
                s.particle \in Range(game.emitters[k].particles)

C19_EmitterCountForLevel ==
    sessions > 0 =>
        Len(game.emitters) = IF 1 + (game.level \div 3) < 3 THEN 1 + (game.level \div 3)
                             ELSE 3

\* C20: in every reachable state each obstacle is at least 150 from every
\* emitter of the session, and each collection point is at least 100 from
\* every emitter and at least obstacle.radius + 50 from every obstacle of the
\* current level.
C20_PlacementDistances ==
    /\ \A o \in 1..Len(game.obstacles) : \A e \in 1..Len(game.emitters) :
          distanceSq(game.obstacles[o].x, game.obstacles[o].y,
                     game.emitters[e].x, game.emitters[e].y) >= 150 * 150
    /\ \A c \in 1..Len(game.collectionPoints) : \A e \in 1..Len(game.emitters) :
          distanceSq(game.collectionPoints[c].x, game.collectionPoints[c].y,
                     game.emitters[e].x, game.emitters[e].y) >= 100 * 100
    /\ \A c \in 1..Len(game.collectionPoints) : \A o \in 1..Len(game.obstacles) :
          distanceSq(game.collectionPoints[c].x, game.collectionPoints[c].y,
                     game.obstacles[o].x, game.obstacles[o].y)
            >= (game.obstacles[o].radius + 50) * (game.obstacles[o].radius + 50)

\* a level-2 layout with obstacles and points, generated with emitters of
\* two levels in the session, from draws of which one was too near an
\* emitter for an obstacle and one too near an obstacle for a point
C20_LayoutAfterRejections ==
    /\ sessions > 0
    /\ game.level > 1
    /\ Len(game.emitters) > 1
    /\ game.obstacles # <<>>
    /\ game.collectionPoints # <<>>
    /\ NearEmitter \in draws.obstacles
    /\ NearObstacle \in draws.points
    /\ \A c \in 1..Len(game.collectionPoints) :
          game.collectionPoints[c].x # NearObstacle.x

\* C21: every power-up spawned at runtime is, at the moment it is spawned, at
\* least 100 from every emitter, at least obstacle.radius + 50 from every
\* obstacle and at least point.radius + 50 from every uncollected collection
\* point, and carries the duration 5000 + 500 x (level at spawn time).
C21_SpawnedPowerUpPlacement ==
    \A n \in 1..Len(log.spawned) :
        LET pu == log.spawned[n].powerUp
            ems == log.spawned[n].emitters
        IN  /\ \A e \in 1..Len(ems) :
                  distanceSq(pu.x, pu.y, ems[e].x, ems[e].y) >= 100 * 100
            /\ \A o \in 1..Len(log.obstacles) :
                  distanceSq(pu.x, pu.y, log.obstacles[o].x, log.obstacles[o].y)
                    >= (log.obstacles[o].radius + 50) * (log.obstacles[o].radius + 50)
            /\ \A c \in 1..Len(log.pointsAtCheck) :
                  \/ log.pointsAtCheck[c].collected
                  \/ distanceSq(pu.x, pu.y, log.pointsAtCheck[c].x, log.pointsAtCheck[c].y)
                        >= (log.pointsAtCheck[c].radius + 50)
                             * (log.pointsAtCheck[c].radius + 50)
            /\ pu.duration = 5000 + 500 * log.levelAtCheck

\* a power-up was spawned at level 2 on the place of a collection point,
\* every point there having been collected in the same tick
C21_SpawnedOnCollectedPoint ==
    /\ log.checkReached
    /\ log.levelAtCheck > 1
    /\ log.spawned # <<>>
    /\ log.spawned[1].powerUp.duration = 6000
    /\ \E c \in 1..Len(log.pointsAtCheck) :
          /\ log.pointsAtCheck[c].collected
          /\ log.pointsAtCheck[c].x = log.spawned[1].powerUp.x
          /\ log.pointsAtCheck[c].y = log.spawned[1].powerUp.y

\* C22: ending a session and starting a new one does not cancel the pending
\* expiry callbacks: a start leaves every pending callback pending, and a
\* callback that fires sets the flag of its type to false whichever session
\* scheduled it.  (The execution the claim speaks of, in which a callback of
\* the previous session ends a power-up picked up in the new one before its
\* own duration elapsed, is C22_StaleExpiryEndsNewPowerUp.)
C22_StartKeepsPendingExpiries ==
    [][/\ log'.started =>
             \A tm \in timers : [tm EXCEPT !.stale = TRUE] \in timers'
       /\ log'.handler = "expire" =>
             /\ log'.expired[1] \in timers
             /\ log'.expired[1].remaining = 0
             /\ ~game'.activePowerUps[log'.expired[1].type]]_vars

\* in the second session a callback scheduled in the first fired and set the
\* flag of Shield to false, while the callback of the Shield picked up in the
\* second session still had time to run
C22_StaleExpiryEndsNewPowerUp ==
    /\ log.handler = "expire"
    /\ sessions > 1
    /\ game.isPlaying
    /\ log.expired[1].stale
    /\ ~game.activePowerUps[log.expired[1].type]
    /\ \E tm \in timers :
          /\ ~tm.stale
          /\ tm.type = log.expired[1].type
          /\ tm.remaining > 0

\* C23: over any sequence of start, pause, resume, game-over and restart
\* events interleaved with display-refresh callbacks, at most one frame
\* callback is pending at any time, so each refresh runs at most one tick.
C23_AtMostOneFramePending == frames <= 1

\* C24: every tick of a Playing session runs to completion without raising
\* an error, for every combination of power-up flags, every emitter rate
\* (fractional rates whose carried remainder reaches 1 included) and every
\* configuration of entities.
C24_TickRaisesNoError == log.ticked => ~log.threw

\* C25: each particle that is live across a tick receives exactly one physics
\* step in it.  Of the step the model keeps the decay of life (one unit per
\* step): a particle in the live set before and after a completed tick has
\* lost exactly one unit of life.
C25_OneStepPerTick ==
    [][(log'.handler = "frame" /\ log'.ticked /\ ~log'.threw) =>
          \A id \in Range(game.particles) \cap Range(game'.particles) :
              game'.objects[id].life = game.objects[id].life - 1]_vars

\* C26: within one tick the physics step of every particle is completed
\* before the first collision test for any particle, and the level-complete
\* and game-over checks run only after all collision resolution: in the
\* order of a tick's events no step follows a test and no test follows the
\* checks.
C26_StepsThenTestsThenChecks ==
    \A j, k \in 1..Len(log.events) :
        j < k => /\ ~(log.events[j].kind = "test" /\ log.events[k].kind = "step")
                 /\ ~(log.events[j].kind = "check" /\ log.events[k].kind = "test")

\* C27: within one tick the velocity changes of a particle are applied in
\* the order gravity, path-follow, obstacle avoidance, magnet, time-slow
\* scaling, friction, and then the position is advanced: the time-slow
\* halving applies to a velocity that already includes every force of that
\* tick.  For the step of the particle loop: the velocity it leaves is the
\* friction of the scaled sum of the velocity it found and the forces.
C27_ForcesThenScaleThenFriction ==
    (probe.ticks > 0 /\ ~probe.threw) =>
        probe.v = Friction(TimeSlowScale(probe.slow, probe.vPool + probe.force + probe.added))

\* C28: with Time-slow active over k consecutive ticks and no other force
\* acting, the 0.5 scale does not accumulate in the stored velocity: each
\* slowed tick moves the particle by half of what it moves unslowed, and
\* after the expiry it moves at its unslowed speed again (up to the rounding
\* of the divisions).
C28_TimeSlowDoesNotAccumulate ==
    (probe.ticks > 0 /\ ~probe.forced /\ ~probe.threw) =>
        IF probe.slow
        THEN 2 * probe.moved - probe.freeMoved \in -8..8
        ELSE probe.moved - probe.freeMoved \in -8..8

\* C29: with Magnet active and the nearest uncollected collection point at
\* distance dist < 200, a velocity change of magnitude 0.2 x (1 - dist/200)
\* toward that point is added to the particle; collected points are never
\* chosen; with Magnet inactive or dist >= 200 nothing is added.
C29_MagnetPull ==
    probe.ticks > 0 =>
        IF probe.magnet /\ probe.nearest > 0 /\ probe.nearest < 200
        THEN /\ ~probe.threw
             /\ probe.added = (MagnetForce * (200 - probe.nearest)) \div 200
        ELSE probe.added = 0 /\ ~probe.threw

\* C30: an active emitter with rate r emits floor(r) particles per tick plus
\* one extra particle in each tick in which the carried remainder reaches 1,
\* and keeps the remainder in [0, 1): after every emit the remainder of every
\* emitter is at least 0 and below 1 (1000 thousandths).
C30_RemainderKeptBelowOne ==
    \A k \in 1..Len(game.emitters) :
        /\ game.emitters[k].rateFraction >= 0
        /\ game.emitters[k].rateFraction < 1000

\* C31: each placement loop ends after at most 50 attempts, and when all of
\* them fail the entity is skipped: after generation for level N there are
\* at most obstacleCount + floor(N/2) obstacles and at most
\* collectionPointCount + floor(N/3) collection points, and either list may
\* be shorter, down to empty; it is empty when every position that can be
\* drawn is too close to an emitter.
C31_PlacementSkips ==
    sessions > 0 =>
        /\ Len(game.obstacles) <= 3 + (game.level \div 2)
        /\ Len(game.collectionPoints) <= 3 + (game.level \div 3)
        /\ (\A pt \in draws.obstacles : \E e \in 1..Len(game.emitters) :
                distanceSq(pt.x, pt.y, game.emitters[e].x, game.emitters[e].y) < 150 * 150)
              => game.obstacles = <<>>
        /\ (\A pt \in draws.points : \E e \in 1..Len(game.emitters) :
                distanceSq(pt.x, pt.y, game.emitters[e].x, game.emitters[e].y) < 100 * 100)
              => game.collectionPoints = <<>>

\* a level above the first was generated with its obstacles and without any
\* collection point: every position drawn for a point was too close to an
\* emitter, in each of the rounds of the loop
C31_LevelWithoutPoints ==
    /\ sessions > 0
    /\ game.level > 1
    /\ game.obstacles # <<>>
    /\ game.collectionPoints = <<>>
    /\ draws.points # {}

\* C32: in every reachable state the trail of a particle holds at most
\* maxTrailLength positions, oldest first, and when a position is appended
\* to a full trail exactly the oldest one is removed: a step leaves the
\* trail it found, without its first position if it was full, followed by
\* the new position.
C32_TrailBounded ==
    /\ [](Len(probe.trail) <= 10)
    /\ [][probe'.steps = probe.steps + 1 =>
             /\ probe'.trail[Len(probe'.trail)] = probe'.x
             /\ IF Len(probe.trail) < 10
                THEN probe'.trail = Append(probe.trail, probe'.x)
                ELSE probe'.trail = Append(Tail(probe.trail), probe'.x)]_vars

\* a full trail after more than maxTrailLength steps: the positions of the
\* first steps have been evicted, the last one is the particle's position
C32_FullTrailAfterEviction ==
    /\ probe.steps > 11
    /\ Len(probe.trail) = 10
    /\ probe.trail[10] = probe.x
    /\ probe.trail[1] < probe.trail[2]

\* C33: at the end of every tick every particle in the live set is active
\* and lies within the canvas bounds expanded by 50 units on each side.
C33_LiveSetActiveAndInBounds ==
    log.ticked =>
        \A k \in 1..Len(game.particles) :
            /\ game.objects[game.particles[k]].active
            /\ game.objects[game.particles[k]].x >= -50
            /\ game.objects[game.particles[k]].x <= CanvasWidth + 50
            /\ game.objects[game.particles[k]].y >= -50
            /\ game.objects[game.particles[k]].y <= CanvasHeight + 50

\* C34: each power-up triggers at most one activation over its lifetime,
\* also when several particles are inside its radius in the same tick, and
\* at the end of every tick the power-up list holds no collected power-up.
C34_PowerUpCollectedOnceAndPruned ==
    /\ \A j, k \in 1..Len(log.pickups) :
          j # k => log.pickups[j].powerUp # log.pickups[k].powerUp
    /\ \A k \in 1..Len(game.powerUps) : ~game.powerUps[k].collected

\* C35: powerUpChance is multiplied by 1.05 at each level-complete
\* transition and capped: in every reachable state it lies in [0.01, 0.05]
\* (10000 to 50000 millionths), and it never decreases on a level
\* transition.
C35_PowerUpChanceRange ==
    /\ [](game.powerUpChance >= 10000 /\ game.powerUpChance <= 50000)
    /\ [][game'.level = game.level + 1 =>
             /\ game'.powerUpChance >= game.powerUpChance
             /\ \/ game'.powerUpChance = (game.powerUpChance * 105) \div 100
                \/ game'.powerUpChance = 50000]_vars

\* the chance stands at its cap in a session that started after the cap
\* was reached
C35_ChanceAtCapAfterRestart ==
    /\ game.isPlaying
    /\ game.level = 2
    /\ game.powerUpChance = 50000

C37_PoolWithinCap ==
    /\ [](\A k \in 1..Len(game.emitters) :
            Len(game.emitters[k].particles) <= game.emitters[k].maxParticles)
    /\ [][log'.handler = "frame" =>
             \A k \in 1..Len(game.emitters) :
                 (\/ Len(game.emitters[k].particles) >= game.emitters[k].maxParticles
                  \/ ~game.emitters[k].active)
                 => Range(game'.emitters[k].particles) \subseteq Range(game.emitters[k].particles)]_vars

\* after a completed tick the pool of the first emitter is full of a
\* particle of an earlier tick (it has lost the life of more than one tick),
\* so the pool was full when this tick called emit
C37_EmitWithFullPool ==
    /\ log.handler = "frame"
    /\ log.checkReached
    /\ game.isPlaying
    /\ Len(game.emitters[1].particles) = game.emitters[1].maxParticles
    /\ game.objects[game.emitters[1].particles[1]].life < LongLife - 2

\* C38: at the end of every tick the pool of each emitter contains exactly
\* the particles it emitted that are still in the live set: the pool holds no
\* inactive particle and no particle removed from the live set, so the pool
\* size read by the emission cap and by the game-over check is the number of
\* that emitter's live particles.
C38_PoolIsLiveParticles ==
    log.checkReached =>
        \A k \in 1..Len(game.emitters) :
            \A id \in Range(game.emitters[k].particles) :
                /\ id \in Range(game.particles)
                /\ game.objects[id].active

\* C39: between two consecutive level advances at least one collection event
\* occurs: the level counter never advances in a level in which no
\* collection point was collected by a particle.  A point is collected only
\* by a particle, so: a tick that advances the level leaves a level that had
\* at least one collection point.
C39_AdvanceNeedsCollection ==
    (log.checkReached /\ game.level > log.before.level) =>
        /\ log.pointsAtCheck # <<>>
        /\ \A c \in 1..Len(log.pointsAtCheck) : log.pointsAtCheck[c].collected

\* C40: while the pointer is down and a path is being drawn (isDrawing with a
\* current path), that path is among the paths getActivePaths returns,
\* however long the stroke lasts and however many ticks run meanwhile.
C40_CurrentPathIsActive ==
    (input.isDrawing /\ input.currentPath) =>
        \E k \in 1..Len(input.paths) : input.paths[k].current

====
